---- MODULE Spec2Model ----
(***************************************************************************)
(* Model of scripts/build_docs.py: the text normaliser, the episode        *)
(* segmenter, the two document loaders and the page/index/manifest build   *)
(* of main().                                                              *)
(*                                                                         *)
(* A Python str is modelled as a sequence of characters; a character is a  *)
(* one-element string.  The two CJK characters of the episode marker       *)
(* (U+7B2C and U+56DE) are written as the tokens "DI" and "HUI".           *)
(***************************************************************************)
EXTENDS Integers, Sequences, FiniteSets, TLC

VARIABLES
    text, once, twice, chunks, tpc,   \* pure-function specifications
    enDir,          \* EN_DIR/*.txt: set of [stem, raw]
    zhDir,          \* ZH_DIR/avatar *.doc: set of [body, raw]
    converter,      \* shutil.which found textutil or antiword
    pc,             \* position of main()
    queue,          \* the rest of the sequence the current for loop iterates
    en, zh,         \* the two episode text maps (dict: int -> str)
    zh_log,         \* history: every "out[num] = ..." of load_chinese, in order
    season_nums, missing_en, missing_zh,
    docs_dir,       \* DOCS_DIR exists
    pages,          \* episode pages written, in write order
    root_index, season_index, mkdocs,
    written,        \* the index and manifest files written so far
    error           \* the exception that ended the run, or "none"

textVars == <<text, once, twice, chunks, tpc>>
mainVars == <<enDir, zhDir, converter, pc, queue, en, zh, zh_log, season_nums,
              missing_en, missing_zh, docs_dir, pages, root_index,
              season_index, mkdocs, written, error>>
vars == <<textVars, mainVars>>

----------------------------------------------------------------------------
(* Characters *)

SP  == " "
TAB == "\t"
NL  == "\n"
FF  == "\f"
CR  == "\r"
BOM == "BOM"
DI  == "DI"
HUI == "HUI"

(* str.strip()/rstrip() with no argument remove Unicode whitespace. *)
IsSpace(c) == c \in {SP, TAB, NL, FF, CR}

----------------------------------------------------------------------------
(* Bounds *)

MaxTextLen  == 5
MaxDocLines == 4
MaxEnFiles  == 2
MaxZhFiles  == 2

----------------------------------------------------------------------------
(* String helpers (Python str methods) *)

RECURSIVE SplitAcc(_, _, _)
SplitAcc(s, cur, acc) ==
    IF s = <<>> THEN Append(acc, cur)
    ELSE IF Head(s) = NL THEN SplitAcc(Tail(s), <<>>, Append(acc, cur))
    ELSE SplitAcc(Tail(s), Append(cur, Head(s)), acc)

(* s.split("\n") *)
Split(s) == SplitAcc(s, <<>>, <<>>)

RECURSIVE Join(_)
(* "\n".join(lines) *)
Join(lines) ==
    IF lines = <<>> THEN <<>>
    ELSE IF Len(lines) = 1 THEN lines[1]
    ELSE lines[1] \o <<NL>> \o Join(Tail(lines))

RECURSIVE RStrip(_)
(* ln.rstrip() *)
RStrip(ln) ==
    IF ln = <<>> THEN <<>>
    ELSE IF IsSpace(ln[Len(ln)]) THEN RStrip(SubSeq(ln, 1, Len(ln) - 1))
    ELSE ln

RECURSIVE LStrip(_)
(* ln.lstrip() *)
LStrip(ln) ==
    IF ln = <<>> THEN <<>>
    ELSE IF IsSpace(Head(ln)) THEN LStrip(Tail(ln))
    ELSE ln

RECURSIVE LStripChar(_, _)
(* ln.lstrip(ch) for a one-character ch *)
LStripChar(ln, ch) ==
    IF ln = <<>> THEN <<>>
    ELSE IF Head(ln) = ch THEN LStripChar(Tail(ln), ch)
    ELSE ln

(* ln.strip() *)
Strip(ln) == LStrip(RStrip(ln))

(* ln.strip() is the empty string *)
IsBlank(ln) == Strip(ln) = <<>>

----------------------------------------------------------------------------
(* normalize_block *)

RECURSIVE ExpandTabs(_)
(* text.replace("\t", "    ").replace("\x0c", "\n") *)
ExpandTabs(s) ==
    IF s = <<>> THEN <<>>
    ELSE (IF Head(s) = TAB THEN <<SP, SP, SP, SP>>
          ELSE IF Head(s) = FF THEN <<NL>>
          ELSE <<Head(s)>>) \o ExpandTabs(Tail(s))

(* Mutant of StripLine: removes at most one leading space. *)
StripLineOneSpace(ln) ==
    LET r == RStrip(ln)
    IN  IF r # <<>> /\ Head(r) = SP THEN Tail(r) ELSE r

(* ln.rstrip().lstrip(" ") *)
StripLine(ln) == LStripChar(RStrip(ln), SP)

RECURSIVE PopLeadingBlank(_)
(* while lines and not lines[0].strip(): lines.pop(0) *)
PopLeadingBlank(lines) ==
    IF lines # <<>> /\ IsBlank(Head(lines)) THEN PopLeadingBlank(Tail(lines))
    ELSE lines

RECURSIVE PopTrailingBlank(_)
(* while lines and not lines[-1].strip(): lines.pop() *)
PopTrailingBlank(lines) ==
    IF lines # <<>> /\ IsBlank(lines[Len(lines)])
    THEN PopTrailingBlank(SubSeq(lines, 1, Len(lines) - 1))
    ELSE lines

RECURSIVE CompactAcc(_, _, _)
CompactAcc(lines, blank, compact) ==
    IF lines = <<>> THEN compact
    ELSE IF IsBlank(Head(lines))
         THEN CompactAcc(Tail(lines), TRUE,
                         IF ~blank THEN Append(compact, <<>>) ELSE compact)
         ELSE CompactAcc(Tail(lines), FALSE, Append(compact, Head(lines)))

(* Mutant of Compact: keeps every blank line. *)
CompactKeepAll(lines) ==
    [i \in 1..Len(lines) |-> IF IsBlank(lines[i]) THEN <<>> ELSE lines[i]]

(* the "collapse consecutive blank lines" loop *)
Compact(lines) == CompactAcc(lines, FALSE, <<>>)

NonEmpty(lines) == SelectSeq(lines, LAMBDA ln : ~IsBlank(ln))

(* len(ln) - len(ln.lstrip(" ")) *)
Indent(ln) == Len(ln) - Len(LStripChar(ln, SP))

(* min(... for ln in non_empty); non_empty is not empty *)
MinIndent(non_empty) ==
    CHOOSE m \in {Indent(non_empty[i]) : i \in 1..Len(non_empty)} :
        \A i \in 1..Len(non_empty) : m <= Indent(non_empty[i])

(* [ln[min_indent:] if len(ln) >= min_indent else "" for ln in compact] *)
Dedent(compact, min_indent) ==
    [i \in 1..Len(compact) |->
        IF Len(compact[i]) >= min_indent
        THEN SubSeq(compact[i], min_indent + 1, Len(compact[i]))
        ELSE <<>>]

normalize_block(s) ==
    LET split   == Split(ExpandTabs(s))
        lines   == [i \in 1..Len(split) |-> StripLine(split[i])]
        trimmed == PopTrailingBlank(PopLeadingBlank(lines))
        compact == Compact(trimmed)
        non_empty == NonEmpty(compact)
    IN  IF non_empty = <<>> THEN <<>>
        ELSE LET min_indent == MinIndent(non_empty)
             IN  IF min_indent > 0 THEN Join(Dedent(compact, min_indent))
                 ELSE Join(compact)

----------------------------------------------------------------------------
(* split_by_episode *)

(* re.match(r"^DI.+HUI", line.strip()): the marker character, at least one *)
(* other character, then the closing character somewhere later on the line *)
IsMarker(line) ==
    LET s == Strip(line)
    IN  /\ Len(s) >= 3
        /\ s[1] = DI
        /\ \E j \in 3..Len(s) : s[j] = HUI

(* indices: the (1-based) positions of the marker lines, ascending *)
MarkerIndices(lines) ==
    SelectSeq([i \in 1..Len(lines) |-> i], LAMBDA i : IsMarker(lines[i]))

(* Mutant of ChunkEnd: every chunk runs to the end of the document. *)
ChunkEndAlwaysLast(indices, idx, n) == n

(* end = indices[idx + 1] if idx + 1 < len(indices) else len(lines);       *)
(* returned as the 1-based position of the last line of the chunk          *)
ChunkEnd(indices, idx, n) ==
    IF idx < Len(indices) THEN indices[idx + 1] - 1 ELSE n

split_by_episode(s) ==
    LET lines   == Split(s)
        indices == MarkerIndices(lines)
    IN  IF indices = <<>> THEN <<s>>
        ELSE [idx \in 1..Len(indices) |->
                Join(SubSeq(lines, indices[idx],
                            ChunkEnd(indices, idx, Len(lines))))]

----------------------------------------------------------------------------
(* read_text_file / read_doc_file *)

RECURSIVE ReplaceCR(_)
(* text.replace("\r\n", "\n").replace("\r", "\n") *)
ReplaceCR(s) ==
    IF s = <<>> THEN <<>>
    ELSE IF Head(s) = CR
         THEN IF Len(s) >= 2 /\ s[2] = NL
              THEN <<NL>> \o ReplaceCR(Tail(Tail(s)))
              ELSE <<NL>> \o ReplaceCR(Tail(s))
         ELSE <<Head(s)>> \o ReplaceCR(Tail(s))

(* the decoded bytes of a file, newlines unified, leading BOMs stripped *)
read_text_file(raw) == LStripChar(ReplaceCR(raw), BOM)

(* the same treatment of the converter's standard output; the caller      *)
(* checks first that a converter exists                                    *)
read_doc_file(raw) == LStripChar(ReplaceCR(raw), BOM)

----------------------------------------------------------------------------
(* File names *)

IsDigit(c) == c \in {"0", "1", "2", "3", "4", "5", "6", "7", "8", "9"}

DigitVal(c) ==
    CASE c = "0" -> 0 [] c = "1" -> 1 [] c = "2" -> 2 [] c = "3" -> 3
      [] c = "4" -> 4 [] c = "5" -> 5 [] c = "6" -> 6 [] c = "7" -> 7
      [] c = "8" -> 8 [] c = "9" -> 9

(* \d{3} matches at position i of s *)
Digits3At(s, i) ==
    /\ i >= 1 /\ i + 2 <= Len(s)
    /\ IsDigit(s[i]) /\ IsDigit(s[i + 1]) /\ IsDigit(s[i + 2])

(* int() of the three digits at position i *)
Int3(s, i) == 100 * DigitVal(s[i]) + 10 * DigitVal(s[i + 1]) + DigitVal(s[i + 2])

(* re.match(r"^(\d{3})$", stem): "$" matches at the end of the string and  *)
(* also just before a newline that ends the string                         *)
MatchesEpisodeStem(stem) ==
    /\ Digits3At(stem, 1)
    /\ \/ Len(stem) = 3
       \/ Len(stem) = 4 /\ stem[4] = NL

parse_episode_number(stem) == Int3(stem, 1)

(* \d{3}-\d{3} matches at position i of name *)
RangeAt(name, i) ==
    /\ Digits3At(name, i)
    /\ i + 6 <= Len(name)
    /\ name[i + 3] = "-"
    /\ Digits3At(name, i + 4)

(* re.search(r"\d{3}-\d{3}", path.name) *)
HasRange(name) == \E i \in 1..Len(name) : RangeAt(name, i)

(* re.search(r"(\d{3})-(\d{3})", name): the leftmost match *)
parse_range_from_name(name) ==
    LET i == CHOOSE j \in 1..Len(name) :
                 RangeAt(name, j) /\ \A k \in 1..(j - 1) : ~RangeAt(name, k)
    IN  <<Int3(name, i), Int3(name, i + 4)>>

(* re.search(r"(\d{3})", path.name) *)
HasDigits3(name) == \E i \in 1..Len(name) : Digits3At(name, i)

FirstDigits3(name) ==
    LET i == CHOOSE j \in 1..Len(name) :
                 Digits3At(name, j) /\ \A k \in 1..(j - 1) : ~Digits3At(name, k)
    IN  Int3(name, i)

(* ZH_DIR.glob("avatar 1??.doc"), on the part of the name between         *)
(* "avatar " and ".doc"                                                    *)
GlobSingle(name) == Len(name) = 3 /\ name[1] = "1"

TXT == <<".", "t", "x", "t">>
DOC == <<".", "d", "o", "c">>

(* code point of a character that occurs in a file name *)
Ord(c) ==
    CASE c = NL -> 10 [] c = SP -> 32 [] c = "-" -> 45 [] c = "." -> 46
      [] IsDigit(c) -> 48 + DigitVal(c)
      [] c = "a" -> 97 [] c = "b" -> 98 [] c = "c" -> 99 [] c = "d" -> 100
      [] c = "o" -> 111 [] c = "t" -> 116 [] c = "x" -> 120

RECURSIVE LexLess(_, _)
(* a < b for Python strings *)
LexLess(a, b) ==
    IF a = <<>> THEN b # <<>>
    ELSE IF b = <<>> THEN FALSE
    ELSE IF Head(a) = Head(b) THEN LexLess(Tail(a), Tail(b))
    ELSE Ord(Head(a)) < Ord(Head(b))

RECURSIVE SortNamesReversed(_, _)
(* Mutant of SortNames: descending order. *)
SortNamesReversed(names, ext) ==
    IF names = {} THEN <<>>
    ELSE LET m == CHOOSE x \in names :
                      \A y \in names : x = y \/ LexLess(y \o ext, x \o ext)
         IN  <<m>> \o SortNamesReversed(names \ {m}, ext)

RECURSIVE SortNames(_, _)
(* sorted(DIR.glob(...)): the paths share directory and extension ext *)
SortNames(names, ext) ==
    IF names = {} THEN <<>>
    ELSE LET m == CHOOSE x \in names :
                      \A y \in names : x = y \/ LexLess(x \o ext, y \o ext)
         IN  <<m>> \o SortNames(names \ {m}, ext)

RECURSIVE SortNums(_)
(* sorted(...) of a set of ints *)
SortNums(nums) ==
    IF nums = {} THEN <<>>
    ELSE LET m == CHOOSE x \in nums : \A y \in nums : x <= y
         IN  <<m>> \o SortNums(nums \ {m})

Names(dir) == {f.name : f \in dir}
RawOf(dir, name) == (CHOOSE f \in dir : f.name = name).raw

----------------------------------------------------------------------------
(* dict helpers *)

(* d[k] = v *)
Put(d, k, v) == [x \in (DOMAIN d) \cup {k} |-> IF x = k THEN v ELSE d[x]]

(* d.get(k, "") *)
Get(d, k) == IF k \in DOMAIN d THEN d[k] ELSE <<>>

Min(a, b) == IF a <= b THEN a ELSE b

(* zip(expected, chs) *)
Zip(expected, chs) ==
    [i \in 1..Min(Len(expected), Len(chs)) |-> <<expected[i], chs[i]>>]

RECURSIVE PutAll(_, _)
(* for num, chunk in pairs: out[num] = chunk *)
PutAll(out, pairs) ==
    IF pairs = <<>> THEN out
    ELSE PutAll(Put(out, Head(pairs)[1], Head(pairs)[2]), Tail(pairs))

(* list(range(start, end + 1)) *)
Range(start, end) ==
    [i \in 1..(IF end >= start THEN end - start + 1 ELSE 0) |-> start + i - 1]

(* Mutant of Expected: the declared range is trusted. *)
ExpectedAsDeclared(start, end, k) == Range(start, end)

(* expected, after the "if len(chunks) != len(expected)" correction *)
Expected(start, end, k) ==
    IF k # Len(Range(start, end)) THEN Range(start, start + k - 1)
    ELSE Range(start, end)

(* the (num, chunk) pairs the range loop assigns for one file: the chunks *)
(* of the text, normalised, zipped with the expected identifiers           *)
RangePairs(name, doc) ==
    LET range == parse_range_from_name(name)
        split == split_by_episode(doc)
        chs   == [i \in 1..Len(split) |-> normalize_block(split[i])]
    IN  Zip(Expected(range[1], range[2], Len(chs)), chs)

----------------------------------------------------------------------------
(* Episode identifiers and pages *)

(* Mutant of season_episode: the season is the hundreds digit plus one. *)
season_episode_off(num) == <<(num \div 100) + 1, num % 100>>

season_episode(num) == <<num \div 100, num % 100>>

(* f"s{season:02d}e{ep:02d}", kept as the pair of the two numbers *)
episode_slug(num) == season_episode(num)

(* Mutant of PageBlocks: the table is chosen when either text is there. *)
PageBlocksEither(en_text, zh_text) ==
    IF en_text # <<>> \/ zh_text # <<>> THEN <<"two_column">>
    ELSE <<"placeholder">>

(* the blocks write_episode_md puts below the heading *)
PageBlocks(en_text, zh_text) ==
    IF en_text # <<>> /\ zh_text # <<>> THEN <<"two_column">>
    ELSE (IF en_text # <<>> THEN <<"English">> ELSE <<>>)
         \o (IF zh_text # <<>> THEN <<"Chinese">> ELSE <<>>)
         \o (IF en_text = <<>> /\ zh_text = <<>> THEN <<"placeholder">> ELSE <<>>)

(* langs *)
PageLangs(en_text, zh_text) ==
    (IF en_text # <<>> THEN <<"English">> ELSE <<>>)
    \o (IF zh_text # <<>> THEN <<"Chinese">> ELSE <<>>)

Slugs(nums) == [i \in 1..Len(nums) |-> episode_slug(nums[i])]

----------------------------------------------------------------------------
(* Inputs of the pure-function specifications *)

SeqsUpTo(S, n) == UNION {[1..k -> S] : k \in 0..n}

NormAlphabet == {"a", SP, TAB, FF, NL}
NormTexts == SeqsUpTo(NormAlphabet, MaxTextLen)

DocLines ==
    { <<>>, <<"x">>, <<DI, "x", HUI>>, <<SP, DI, HUI, HUI, "y">>,
      <<DI, HUI>>, <<"x", DI, "x", HUI>> }
DocTexts == {Join(ls) : ls \in (SeqsUpTo(DocLines, MaxDocLines) \ {<<>>})}

(* The dict with no key. *)
EmptyDict == [k \in {} |-> <<>>]

(* the root index before write_indexes has written it *)
NoRootIndex == [seasons |-> <<>>, coverage |-> <<>>]

(* The main() variables while a pure-function specification runs. *)
MainIdle ==
    /\ enDir = {} /\ zhDir = {} /\ converter = FALSE
    /\ pc = "idle" /\ queue = <<>>
    /\ en = EmptyDict /\ zh = EmptyDict /\ zh_log = <<>>
    /\ season_nums = EmptyDict /\ missing_en = <<>> /\ missing_zh = <<>>
    /\ docs_dir = FALSE /\ pages = <<>>
    /\ root_index = NoRootIndex /\ season_index = EmptyDict
    /\ mkdocs = EmptyDict /\ written = {} /\ error = "none"

(* The pure-function variables while main() runs. *)
TextIdle ==
    /\ text = <<>> /\ once = <<>> /\ twice = <<>> /\ chunks = <<>>
    /\ tpc = "idle"

----------------------------------------------------------------------------
(* Specification of normalize_block applied once and twice *)

InitNorm ==
    /\ MainIdle
    /\ text \in NormTexts
    /\ once = <<>>
    /\ twice = <<>>
    /\ chunks = <<>>
    /\ tpc = "input"

Normalize ==
    /\ tpc = "input"
    /\ once' = normalize_block(text)
    /\ tpc' = "once"
    /\ UNCHANGED <<text, twice, chunks, mainVars>>

Renormalize ==
    /\ tpc = "once"
    /\ twice' = normalize_block(once)
    /\ tpc' = "twice"
    /\ UNCHANGED <<text, once, chunks, mainVars>>

NextNorm == Normalize \/ Renormalize

SpecNorm == InitNorm /\ [][NextNorm]_vars

----------------------------------------------------------------------------
(* Specification of split_by_episode *)

InitSplit ==
    /\ MainIdle
    /\ text \in DocTexts
    /\ once = <<>>
    /\ twice = <<>>
    /\ chunks = <<>>
    /\ tpc = "input"

SplitDoc ==
    /\ tpc = "input"
    /\ chunks' = split_by_episode(text)
    /\ tpc' = "split"
    /\ UNCHANGED <<text, once, twice, mainVars>>

NextSplit == SplitDoc

SpecSplit == InitSplit /\ [][NextSplit]_vars

----------------------------------------------------------------------------
(* Inputs of main(): the two source directories and the converter *)

EnStems ==
    { <<"1", "0", "1">>, <<"2", "0", "5">>, <<"0", "4", "2">>,
      <<"1", "a", "2">>, <<"1", "0", "1", NL>> }
EnRaws ==
    { <<BOM, "a", CR, NL, SP, "b">>, <<SP, CR, TAB>> }
EnFiles == {[name |-> n, raw |-> r] : n \in EnStems, r \in EnRaws}

ZhSingleBodies ==
    { <<"1", "0", "1">>, <<"2", "0", "1">>, <<"1", "a", "b">> }
ZhSingleRaws ==
    { <<"z", CR, FF, "z">> }
ZhRangeBodies ==
    { <<"1", "0", "1", "-", "1", "0", "2">>,
      <<"1", "0", "1", "-", "1", "0", "5">>,
      <<"0", SP, "1", "0", "2", "-", "1", "0", "3">>,
      <<"3", "9", "9", "-", "4", "0", "0">> }
ZhRangeRaws ==
    { <<"x">>,
      <<"p", NL, DI, "1", HUI, NL, "u", NL, NL, DI, "2", HUI>>,
      <<DI, "1", HUI, NL, SP, DI, "2", HUI, NL, DI, "3", HUI, NL, DI, "4", HUI>> }
ZhFiles ==
    {[name |-> n, raw |-> r] : n \in ZhSingleBodies, r \in ZhSingleRaws}
    \cup {[name |-> n, raw |-> r] : n \in ZhRangeBodies, r \in ZhRangeRaws}

RECURSIVE DirsUpTo(_, _)
(* the directories holding at most k of the files, no name twice *)
DirsUpTo(files, k) ==
    IF k = 0 THEN {{}}
    ELSE LET prev == DirsUpTo(files, k - 1)
         IN  prev \cup UNION {{d \cup {f} :
                                  f \in {g \in files : g.name \notin Names(d)}} :
                               d \in prev}

----------------------------------------------------------------------------
(* main() *)

Init ==
    /\ TextIdle
    /\ enDir \in DirsUpTo(EnFiles, MaxEnFiles)
    /\ zhDir \in DirsUpTo(ZhFiles, MaxZhFiles)
    /\ converter \in BOOLEAN
    /\ pc = "start"
    /\ queue = <<>>
    /\ en = EmptyDict /\ zh = EmptyDict /\ zh_log = <<>>
    /\ season_nums = EmptyDict /\ missing_en = <<>> /\ missing_zh = <<>>
    /\ docs_dir = FALSE /\ pages = <<>>
    /\ root_index = NoRootIndex /\ season_index = EmptyDict
    /\ mkdocs = EmptyDict /\ written = {} /\ error = "none"

outVars == <<pages, root_index, season_index, mkdocs, written>>
inVars  == <<enDir, zhDir, converter>>
accVars == <<season_nums, missing_en, missing_zh>>

(* main: DOCS_DIR.mkdir; load_english starts its loop *)
Start ==
    /\ pc = "start"
    /\ docs_dir' = TRUE
    /\ queue' = SortNames(Names(enDir), TXT)
    /\ pc' = "load_english"
    /\ UNCHANGED <<textVars, inVars, en, zh, zh_log, accVars, outVars, error>>

(* load_english: one iteration of the loop *)
LoadEnglishFile ==
    /\ pc = "load_english"
    /\ queue # <<>>
    /\ LET stem == Head(queue)
       IN  IF MatchesEpisodeStem(stem)
           THEN /\ en' = Put(en, parse_episode_number(stem),
                             normalize_block(read_text_file(RawOf(enDir, stem))))
                /\ queue' = Tail(queue)
                /\ UNCHANGED <<pc, error>>
           ELSE /\ pc' = "aborted"
                /\ error' = "ValueError"
                /\ UNCHANGED <<en, queue>>
    /\ UNCHANGED <<textVars, inVars, zh, zh_log, accVars, docs_dir, outVars>>

(* load_english returns; load_chinese starts its first loop *)
LoadEnglishDone ==
    /\ pc = "load_english"
    /\ queue = <<>>
    /\ queue' = SortNames({n \in Names(zhDir) : GlobSingle(n)}, DOC)
    /\ pc' = "load_single"
    /\ UNCHANGED <<textVars, inVars, en, zh, zh_log, accVars, docs_dir, outVars, error>>

(* load_chinese: one iteration of the single-episode loop *)
LoadChineseSingle ==
    /\ pc = "load_single"
    /\ queue # <<>>
    /\ LET name == Head(queue)
       IN  IF HasRange(name) \/ ~HasDigits3(name)
           THEN /\ queue' = Tail(queue)
                /\ UNCHANGED <<zh, zh_log, pc, error>>
           ELSE IF ~converter
           THEN /\ pc' = "aborted"
                /\ error' = "FileNotFoundError"
                /\ UNCHANGED <<zh, zh_log, queue>>
           ELSE LET num == FirstDigits3(name)
                    txt == normalize_block(read_doc_file(RawOf(zhDir, name)))
                IN  /\ zh' = Put(zh, num, txt)
                    /\ zh_log' = Append(zh_log,
                                        [file |-> name, num |-> num, text |-> txt])
                    /\ queue' = Tail(queue)
                    /\ UNCHANGED <<pc, error>>
    /\ UNCHANGED <<textVars, inVars, en, accVars, docs_dir, outVars>>

(* load_chinese: the first loop ends, the range loop starts *)
LoadSingleDone ==
    /\ pc = "load_single"
    /\ queue = <<>>
    /\ queue' = SortNames(Names(zhDir), DOC)
    /\ pc' = "load_range"
    /\ UNCHANGED <<textVars, inVars, en, zh, zh_log, accVars, docs_dir, outVars, error>>

(* load_chinese: one iteration of the range loop *)
LoadChineseRange ==
    /\ pc = "load_range"
    /\ queue # <<>>
    /\ LET name == Head(queue)
       IN  IF ~HasRange(name)
           THEN /\ queue' = Tail(queue)
                /\ UNCHANGED <<zh, zh_log, pc, error>>
           ELSE IF ~converter
           THEN /\ pc' = "aborted"
                /\ error' = "FileNotFoundError"
                /\ UNCHANGED <<zh, zh_log, queue>>
           ELSE \E pairs \in {RangePairs(name, read_doc_file(RawOf(zhDir, name)))} :
                    /\ zh' = PutAll(zh, pairs)
                    /\ zh_log' = zh_log \o
                          [i \in 1..Len(pairs) |->
                              [file |-> name, num |-> pairs[i][1],
                               text |-> pairs[i][2]]]
                    /\ queue' = Tail(queue)
                    /\ UNCHANGED <<pc, error>>
    /\ UNCHANGED <<textVars, inVars, en, accVars, docs_dir, outVars>>

(* load_chinese returns; main builds all_nums and the empty accumulators *)
LoadChineseDone ==
    /\ pc = "load_range"
    /\ queue = <<>>
    /\ queue' = SortNums((DOMAIN en) \cup (DOMAIN zh))
    /\ season_nums' = [s \in {1, 2, 3} |-> <<>>]
    /\ missing_en' = <<>>
    /\ missing_zh' = <<>>
    /\ pc' = "render"
    /\ UNCHANGED <<textVars, inVars, en, zh, zh_log, docs_dir, outVars, error>>

(* main: one iteration of "for num in all_nums", write_episode_md included *)
RenderEpisode ==
    /\ pc = "render"
    /\ queue # <<>>
    /\ LET num    == Head(queue)
           season == season_episode(num)[1]
       IN  IF season \notin DOMAIN season_nums
           THEN UNCHANGED <<accVars, pages>>
           ELSE /\ season_nums' =
                      [season_nums EXCEPT ![season] = Append(@, num)]
                /\ pages' = Append(pages,
                      [path   |-> episode_slug(num),
                       langs  |-> PageLangs(Get(en, num), Get(zh, num)),
                       blocks |-> PageBlocks(Get(en, num), Get(zh, num))])
                /\ missing_en' = IF num \notin DOMAIN en
                                 THEN Append(missing_en, num) ELSE missing_en
                /\ missing_zh' = IF num \notin DOMAIN zh
                                 THEN Append(missing_zh, num) ELSE missing_zh
    /\ queue' = Tail(queue)
    /\ UNCHANGED <<textVars, inVars, en, zh, zh_log, pc, docs_dir, root_index,
                   season_index, mkdocs, written, error>>

(* the "Coverage" lines of the root index *)
Coverage(m_en, m_zh) ==
    (IF m_en # <<>>
     THEN <<[label |-> "Missing English", slugs |-> Slugs(m_en)]>> ELSE <<>>)
    \o (IF m_zh # <<>>
        THEN <<[label |-> "Missing Chinese", slugs |-> Slugs(m_zh)]>> ELSE <<>>)

RECURSIVE SortedList(_)
(* sorted(nums) of a list of ints: repeated elements stay repeated *)
SortedList(nums) ==
    IF nums = <<>> THEN <<>>
    ELSE LET i == CHOOSE j \in 1..Len(nums) :
                      \A k \in 1..Len(nums) : nums[j] <= nums[k]
         IN  <<nums[i]>> \o SortedList(SubSeq(nums, 1, i - 1)
                                        \o SubSeq(nums, i + 1, Len(nums)))

(* main: the season lists are sorted; write_indexes *)
WriteIndexes ==
    /\ pc = "render"
    /\ queue = <<>>
    /\ season_nums' = [s \in DOMAIN season_nums |-> SortedList(season_nums[s])]
    /\ root_index' = [seasons  |-> SortNums(DOMAIN season_nums),
                      coverage |-> Coverage(missing_en, missing_zh)]
    /\ season_index' = [s \in DOMAIN season_nums |-> Slugs(season_nums'[s])]
    /\ written' = written \cup {"docs/index.md", "docs/season-NN/index.md"}
    /\ pc' = "mkdocs"
    /\ UNCHANGED <<textVars, inVars, en, zh, zh_log, queue, missing_en, missing_zh,
                   docs_dir, pages, mkdocs, error>>

(* write_mkdocs: the nav section *)
WriteMkdocs ==
    /\ pc = "mkdocs"
    /\ mkdocs' = [s \in DOMAIN season_nums |-> Slugs(season_nums[s])]
    /\ written' = written \cup {"mkdocs.yml"}
    /\ pc' = "done"
    /\ UNCHANGED <<textVars, inVars, en, zh, zh_log, queue, accVars, docs_dir, pages,
                   root_index, season_index, error>>

Next ==
    \/ Start
    \/ LoadEnglishFile
    \/ LoadEnglishDone
    \/ LoadChineseSingle
    \/ LoadSingleDone
    \/ LoadChineseRange
    \/ LoadChineseDone
    \/ RenderEpisode
    \/ WriteIndexes
    \/ WriteMkdocs

Spec == Init /\ [][Next]_vars

----------------------------------------------------------------------------
(* Properties of load_chinese and main (checked under Spec) *)

InScope(id) == id \div 100 \in {1, 2, 3}

(* load_chinese has returned *)
Loaded == pc \in {"render", "mkdocs", "done"}

(* load_chinese has just returned: main has rendered no page yet *)
JustLoaded == pc = "render" /\ pages = <<>>

InQueue(name) == \E i \in 1..Len(queue) : queue[i] = name

(* the range loop is running and has finished its iteration for file f   *)
(* (zh_log does not change once the loop has ended)                        *)
RangeDone(f) ==
    /\ HasRange(f.name)
    /\ pc = "load_range"
    /\ ~InQueue(f.name)

DocChunks(f) == split_by_episode(read_doc_file(f.raw))
DeclaredStart(f) == parse_range_from_name(f.name)[1]
DeclaredEnd(f) == parse_range_from_name(f.name)[2]
LogOf(f) == SelectSeq(zh_log, LAMBDA e : e.file = f.name)

(* C1: a range file declaring [start, end] whose text splits into k chunks *)
(* assigns exactly start, ..., start+k-1, the i-th chunk to start+i-1,     *)
(* whatever the declared end is.                                           *)
C1_RangeAssignsFromStart ==
    \A f \in zhDir :
        RangeDone(f) =>
            \A split \in {DocChunks(f)} : \A log \in {LogOf(f)} :
                /\ Len(log) = Len(split)
                /\ \A i \in 1..Len(split) :
                      /\ log[i].num = DeclaredStart(f) + i - 1
                      /\ log[i].text = normalize_block(split[i])

C1_Witness ==
    \E f \in zhDir :
        /\ RangeDone(f)
        /\ DeclaredStart(f) = 101 /\ DeclaredEnd(f) = 105
        /\ Len(DocChunks(f)) = 4
        /\ \E i \in 1..Len(zh_log) : zh_log[i].file = f.name /\ zh_log[i].num = 104

(* the <<identifier, text>> pairs a file of ZH_DIR assigns *)
AssignsOf(f) ==
    IF HasRange(f.name)
    THEN UNION {{<<DeclaredStart(f) + i - 1, normalize_block(split[i])>> :
                    i \in 1..Len(split)} : split \in {DocChunks(f)}}
    ELSE IF GlobSingle(f.name) /\ HasDigits3(f.name)
    THEN {<<FirstDigits3(f.name), normalize_block(read_doc_file(f.raw))>>}
    ELSE {}

AssignsId(f, id) == \E p \in AssignsOf(f) : p[1] = id

(* the fixed order: single-episode files by name, then range files by name *)
Before(a, b) ==
    \/ ~HasRange(a) /\ HasRange(b)
    \/ HasRange(a) = HasRange(b) /\ LexLess(a \o DOC, b \o DOC)

(* C10: load_chinese assigns in a fixed order (single-episode files in    *)
(* name order, then range files in name order) and the last assignment     *)
(* wins: the text finally in the map is the chunk of the last file in that *)
(* order that assigns the identifier.  The map is final when load_chinese  *)
(* returns, i.e. when main is about to render its first page.              *)
C10_LastAssignmentWins ==
    /\ (pc \in {"load_single", "load_range"} \/ JustLoaded) =>
          /\ \A i, j \in 1..Len(zh_log) :
                i < j => ~Before(zh_log[j].file, zh_log[i].file)
          /\ \A id \in DOMAIN zh :
                \E i \in 1..Len(zh_log) :
                    /\ zh_log[i].num = id
                    /\ zh_log[i].text = zh[id]
                    /\ \A j \in (i + 1)..Len(zh_log) : zh_log[j].num # id
    /\ JustLoaded =>
          \A tbl \in {[f \in zhDir |-> AssignsOf(f)]} :
              /\ DOMAIN zh = UNION {{p[1] : p \in tbl[f]} : f \in zhDir}
              /\ \A id \in DOMAIN zh :
                    LET fs   == {f \in zhDir : \E p \in tbl[f] : p[1] = id}
                        last == CHOOSE f \in fs :
                                    \A g \in fs \ {f} : Before(g.name, f.name)
                    IN  <<id, zh[id]>> \in tbl[last]

C10_Witness ==
    /\ JustLoaded
    /\ \E f, g \in zhDir : \E id \in DOMAIN zh :
          /\ HasRange(f.name) /\ HasRange(g.name) /\ f # g
          /\ AssignsId(f, id) /\ AssignsId(g, id)
          /\ id > DeclaredEnd(f)
          /\ Before(g.name, f.name)
          /\ <<id, zh[id]>> \in AssignsOf(f)
          /\ <<id, zh[id]>> \notin AssignsOf(g)

(* C9 as claimed: every legacy file whose name embeds a 3-digit number N  *)
(* of season 1, 2 or 3 and no start-end pair puts its normalised text      *)
(* under key N of the Chinese map, unless a range file assigns N.          *)
C9_SingleFilesOfEverySeasonLoaded ==
    Loaded =>
        \A f \in zhDir :
            (HasDigits3(f.name) /\ ~HasRange(f.name)
                /\ InScope(FirstDigits3(f.name))) =>
                LET N == FirstDigits3(f.name)
                IN  /\ N \in DOMAIN zh
                    /\ \/ zh[N] = normalize_block(read_doc_file(f.raw))
                       \/ \E g \in zhDir : HasRange(g.name) /\ AssignsId(g, N)

ExactlyThreeDigits(stem) == Len(stem) = 3 /\ Digits3At(stem, 1)

NothingWritten == pages = <<>> /\ written = {}

(* C8 as claimed: when some file of the English directory has a base name *)
(* that is not exactly three decimal digits, the run aborts while loading  *)
(* and writes no page, index or manifest.                                  *)
C8_BadNameAbortsBeforeWrites ==
    (\E f \in enDir : ~ExactlyThreeDigits(f.name)) =>
        /\ NothingWritten
        /\ pc \in {"start", "load_english", "aborted"}
        /\ pc = "aborted" => error = "ValueError"

IdOf(slug) == slug[1] * 100 + slug[2]

PageOf(id) == {i \in 1..Len(pages) : IdOf(pages[i].path) = id}

ListedMissingChinese(id) ==
    /\ "docs/index.md" \in written
    /\ \E i \in 1..Len(root_index.coverage) :
          /\ root_index.coverage[i].label = "Missing Chinese"
          /\ \E k \in 1..Len(root_index.coverage[i].slugs) :
                IdOf(root_index.coverage[i].slugs[k]) = id

EnglishOnly == {id \in (DOMAIN en) \ (DOMAIN zh) : InScope(id)}

(* C6 as claimed: every in-scope identifier that is a key of the English  *)
(* map only gets a page with the single English block and is listed under  *)
(* the Missing-Chinese coverage line, whatever its English text is.        *)
C6_EnglishOnlyBlockAlways ==
    pc = "done" =>
        \A id \in EnglishOnly :
            /\ \E i \in PageOf(id) : pages[i].blocks = <<"English">>
            /\ ListedMissingChinese(id)

(* C6 amended: every in-scope identifier that is a key of the English map *)
(* only gets one page and is listed under the Missing-Chinese coverage     *)
(* line; the page holds the single English block when the English text is  *)
(* not empty and the placeholder notice when it is the empty string.       *)
C6_EnglishOnlyBlockUnlessEmpty ==
    pc = "done" =>
        \A id \in EnglishOnly :
            /\ Cardinality(PageOf(id)) = 1
            /\ \A i \in PageOf(id) :
                  pages[i].blocks = IF en[id] # <<>> THEN <<"English">>
                                    ELSE <<"placeholder">>
            /\ ListedMissingChinese(id)

C6_Witness ==
    /\ pc = "done"
    /\ \E id, other \in EnglishOnly : en[id] # <<>> /\ en[other] = <<>>

StrictlyAscending(slugs, season) ==
    /\ \A i \in 1..Len(slugs) : slugs[i][1] = season
    /\ \A i \in 1..(Len(slugs) - 1) : slugs[i][2] < slugs[i + 1][2]

ListedIds(listing) ==
    UNION {{IdOf(listing[s][i]) : i \in 1..Len(listing[s])} : s \in DOMAIN listing}

(* C7: after a completed run the pages written, the season index entries  *)
(* and the manifest entries are the same set: the identifiers of the union *)
(* of the two maps whose season is 1, 2 or 3, each exactly once, and each  *)
(* season's index listing and manifest listing are strictly ascending.     *)
C7_PagesIndexManifestAgree ==
    pc = "done" =>
        LET ids == {n \in (DOMAIN en) \cup (DOMAIN zh) : InScope(n)}
        IN  /\ {IdOf(pages[i].path) : i \in 1..Len(pages)} = ids
            /\ Len(pages) = Cardinality(ids)
            /\ DOMAIN season_index = {1, 2, 3}
            /\ DOMAIN mkdocs = {1, 2, 3}
            /\ ListedIds(season_index) = ids
            /\ ListedIds(mkdocs) = ids
            /\ \A s \in {1, 2, 3} :
                  /\ StrictlyAscending(season_index[s], s)
                  /\ StrictlyAscending(mkdocs[s], s)

C7_Witness ==
    /\ pc = "done"
    /\ Len(pages) >= 3
    /\ \E a, b \in (DOMAIN en) \cup (DOMAIN zh) :
          InScope(a) /\ InScope(b) /\ a \div 100 # b \div 100
    /\ \E n \in (DOMAIN en) \cup (DOMAIN zh) : ~InScope(n)

----------------------------------------------------------------------------
(* Properties of normalize_block (checked under SpecNorm) *)

(* The lines of the input as normalize_block sees them: tabs expanded and *)
(* form feeds counted as line breaks.                                      *)
InputLines == Split(ExpandTabs(text))

NonBlankIdx(lines) ==
    SelectSeq([i \in 1..Len(lines) |-> i], LAMBDA i : ~IsBlank(lines[i]))

(* C3: normalize_block is idempotent: normalising the normalised text      *)
(* gives the normalised text again.                                        *)
C3_Idempotent == tpc = "twice" => twice = once

C3_Witness ==
    /\ tpc = "twice"
    /\ once # <<>>
    /\ once # text
    /\ \E i \in 1..Len(text) : text[i] = TAB

(* C4: normalize_block removes only the minimum common leading-space run, *)
(* so every non-blank line keeps its indentation relative to the           *)
(* least-indented non-blank line.                                          *)
C4_RelativeIndentKept ==
    tpc # "input" =>
        LET inNE  == NonEmpty([i \in 1..Len(InputLines) |-> RStrip(InputLines[i])])
            outNE == NonEmpty(Split(once))
        IN  inNE # <<>> =>
              /\ Len(outNE) = Len(inNE)
              /\ \A j \in 1..Len(inNE) :
                    Indent(outNE[j]) = Indent(inNE[j]) - MinIndent(inNE)

(* C5: the output has no two consecutive blank lines, neither begins nor  *)
(* ends with a blank line, has exactly one blank line wherever one or more *)
(* blank lines separated two non-blank lines of the input, and is the      *)
(* empty string when the input has no non-blank line.                      *)
C5_BlankLines ==
    tpc # "input" =>
        LET outL  == Split(once)
            inNB  == NonBlankIdx(InputLines)
            outNB == NonBlankIdx(outL)
        IN  /\ inNB = <<>> => once = <<>>
            /\ inNB # <<>> =>
                 /\ ~IsBlank(outL[1])
                 /\ ~IsBlank(outL[Len(outL)])
                 /\ \A i \in 1..(Len(outL) - 1) :
                        ~(IsBlank(outL[i]) /\ IsBlank(outL[i + 1]))
                 /\ Len(outNB) = Len(inNB)
                 /\ \A j \in 1..(Len(inNB) - 1) :
                        inNB[j + 1] - inNB[j] > 1 => outNB[j + 1] - outNB[j] = 2

C5_Witness ==
    /\ tpc = "once"
    /\ LET inNB == NonBlankIdx(InputLines)
       IN  \E j \in 1..(Len(inNB) - 1) : inNB[j + 1] - inNB[j] > 2

----------------------------------------------------------------------------
(* Properties of split_by_episode (checked under SpecSplit) *)

RECURSIVE Flatten(_)
Flatten(seqs) ==
    IF seqs = <<>> THEN <<>> ELSE Head(seqs) \o Flatten(Tail(seqs))

ChunkLines == [i \in 1..Len(chunks) |-> Split(chunks[i])]

(* One chunk per marker, each starting at a marker line and holding no    *)
(* other marker line.                                                      *)
ChunksStartAtMarkers(lines) ==
    /\ Len(chunks) = Len(MarkerIndices(lines))
    /\ \A i \in 1..Len(chunks) :
          /\ IsMarker(ChunkLines[i][1])
          /\ \A k \in 2..Len(ChunkLines[i]) : ~IsMarker(ChunkLines[i][k])

(* C2 as claimed: the chunks partition the document, i.e. together they   *)
(* contain every line of the document in the original order.               *)
C2_ChunksCoverDocument ==
    tpc = "split" =>
        LET lines == Split(text)
        IN  IF MarkerIndices(lines) = <<>> THEN chunks = <<text>>
            ELSE /\ ChunksStartAtMarkers(lines)
                 /\ Flatten(ChunkLines) = lines

(* C2 amended: no marker gives the whole text as one chunk; otherwise     *)
(* there is one chunk per marker, each a contiguous run from a marker to   *)
(* just before the next, and together the chunks are the lines from the    *)
(* first marker line to the end of the document, in order (the lines       *)
(* before the first marker are in no chunk).                               *)
C2_ChunksCoverFromFirstMarker ==
    tpc = "split" =>
        LET lines   == Split(text)
            indices == MarkerIndices(lines)
        IN  IF indices = <<>> THEN chunks = <<text>>
            ELSE /\ ChunksStartAtMarkers(lines)
                 /\ Flatten(ChunkLines) = SubSeq(lines, indices[1], Len(lines))

C2_Witness ==
    /\ tpc = "split"
    /\ Len(chunks) >= 2
    /\ ~IsMarker(Split(text)[1])
    /\ \E i \in 1..Len(chunks) : Len(ChunkLines[i]) >= 2

====
